---- MODULE Spec2Model ----
(***************************************************************************)
(* PostProcessor (src/01/main.js): a canvas that repaints a video frame    *)
(* each time the video presents one.  The model holds the renderer's       *)
(* fields, the parts of the video element and of the canvas it touches     *)
(* (dimensions, event listeners, video-frame callbacks, context filter),   *)
(* and the page and platform around it as the environment.                 *)
(***************************************************************************)
EXTENDS Integers, Sequences, FiniteSets, TLC

\* Bounds of the model.
MaxDim == 2
MaxHandles == 5
MaxFrames == 3

\* A canvas element without width/height attributes is 300 x 150.
DefaultWidth == 300
DefaultHeight == 150

Null == "null"
NoFilter == "none"
Filter == "contrast(1.5) saturate(200%)"
EventTypes == {"resize", "loadedmetadata"}
VideoDims == 1..MaxDim

VARIABLES
  phase,            \* "init" before `new PostProcessor`, then "constructed" or "failed" (it threw)
  destroyed,        \* this.destroyed
  video,            \* this.video: "video" or Null
  canvas,           \* this.canvas: "canvas" or Null
  callback,         \* this.callback: a video-frame callback handle, 0 while unset
  binds,            \* number of bound copies of this.resize made by .bind(this) so far
  listeners,        \* the video element's event listeners: a set of <<type, function>>
  cbs,              \* the video element's frame callbacks: handle -> status
  surface,          \* the canvas: [width, height, filter, pixels]
  videoWidth,       \* video.videoWidth
  videoHeight,      \* video.videoHeight
  metadataLoaded,   \* the video element has its metadata
  eventQueue,       \* events the video element has queued and not yet dispatched
  framesPresented,  \* frames the video presented since construction
  blits,            \* drawImage calls made so far
  delivered,        \* frame callbacks of the renderer invoked by the platform before destroy()
  sized,            \* <<videoWidth, videoHeight>> at construction or at the last dispatched event
  notified,         \* a notification has been delivered since construction
  awaiting,         \* executions of the asynchronous processFrame suspended at its await
  writes,           \* putImageData calls made so far
  destroyedAtAwait  \* handles whose execution was suspended when destroy() was called

vars == <<phase, destroyed, video, canvas, callback, binds, listeners, cbs, surface,
          videoWidth, videoHeight, metadataLoaded, eventQueue, framesPresented,
          blits, delivered, sized, notified, awaiting, writes, destroyedAtAwait>>

envVars == <<videoWidth, videoHeight, metadataLoaded, eventQueue, framesPresented>>

----------------------------------------------------------------------------
\* The part of the state a method of the renderer reads or writes.
World ==
  [phase |-> phase, destroyed |-> destroyed, video |-> video, canvas |-> canvas,
   callback |-> callback, binds |-> binds, listeners |-> listeners, cbs |-> cbs,
   surface |-> surface, videoWidth |-> videoWidth, videoHeight |-> videoHeight,
   blits |-> blits, writes |-> writes]

Apply(w) ==
  /\ phase' = w.phase
  /\ destroyed' = w.destroyed
  /\ video' = w.video
  /\ canvas' = w.canvas
  /\ callback' = w.callback
  /\ binds' = w.binds
  /\ listeners' = w.listeners
  /\ cbs' = w.cbs
  /\ surface' = w.surface
  /\ blits' = w.blits
  /\ writes' = w.writes

\* ---- the platform: canvas ----
\* Assigning canvas.width or canvas.height clears the bitmap and resets the
\* context's state, the filter included.
SetCanvasWidth(s, n) == [s EXCEPT !.width = n, !.filter = NoFilter, !.pixels = "blank"]

SetCanvasHeight(s, n) == [s EXCEPT !.height = n, !.filter = NoFilter, !.pixels = "blank"]

SetCtxFilter(s, f) == [s EXCEPT !.filter = f]

drawImage(s) == [s EXCEPT !.pixels = "frame"]

putImageData(s) == [s EXCEPT !.pixels = "processed"]

\* The promise of createImageBitmap(canvas) is rejected for a canvas whose
\* width or height is zero.
createImageBitmap(s) == IF s.width = 0 \/ s.height = 0 THEN "rejected" ELSE "bitmap"

\* ---- the platform: functions and event listeners ----
\* this.resize is the one method object of the prototype; every call of
\* .bind(this) makes a new function object.
Method(name) == [method |-> name, bound |-> 0]

BoundFn(name, n) == [method |-> name, bound |-> n]

addEventListener(w, type, fn) == [w EXCEPT !.listeners = @ \cup {<<type, fn>>}]

removeEventListener(w, type, fn) == [w EXCEPT !.listeners = @ \ {<<type, fn>>}]

\* ---- the platform: video frame callbacks ----
\* A callback is "pending" until the video presents a frame, "inflight" once
\* the platform has taken it off its list to run it, "fired" once invoked,
\* "cancelled" when cancelVideoFrameCallback removed it from the list.
requestVideoFrameCallback(w) == [w EXCEPT !.cbs = Append(@, "pending")]

cancelVideoFrameCallback(w, h) ==
  IF h \in DOMAIN w.cbs /\ w.cbs[h] = "pending"
  THEN [w EXCEPT !.cbs[h] = "cancelled"]
  ELSE w

----------------------------------------------------------------------------
\* ---- PostProcessor ----
\* Variant of resize that sets the filter first and the dimensions after it.
resize_FilterFirst(w) ==
  IF w.canvas = Null
  THEN w
  ELSE [w EXCEPT !.surface =
          SetCanvasHeight(SetCanvasWidth(SetCtxFilter(@, Filter), w.videoWidth),
                          w.videoHeight)]

\* Variant of resize that copies the width and forgets the height.
resize_WidthOnly(w) ==
  IF w.canvas = Null
  THEN w
  ELSE [w EXCEPT !.surface = SetCtxFilter(SetCanvasWidth(@, w.videoWidth), Filter)]

resize(w) ==
  IF w.canvas = Null
  THEN w    \* this.canvas.width = ... throws a TypeError: nothing is assigned
  ELSE [w EXCEPT !.surface =
          SetCtxFilter(SetCanvasHeight(SetCanvasWidth(@, w.videoWidth), w.videoHeight),
                       Filter)]

\* Variant of processFrame that asks for the next frame and drops the handle.
processFrame_NoStore(w) ==
  requestVideoFrameCallback([w EXCEPT !.surface = drawImage(@), !.blits = @ + 1])

\* Variant of processFrame that fits the canvas to the video before each draw.
processFrame_ResizeEachFrame(w) ==
  LET w0 == [w EXCEPT !.surface =
               IF <<@.width, @.height>> = <<w.videoWidth, w.videoHeight>>
               THEN @
               ELSE SetCanvasHeight(SetCanvasWidth(@, w.videoWidth), w.videoHeight)]
      w1 == [w0 EXCEPT !.surface = drawImage(@), !.blits = @ + 1]
      w2 == requestVideoFrameCallback(w1)
  IN  [w2 EXCEPT !.callback = Len(w2.cbs)]

\* Variant of processFrame that draws and does not ask for the next frame.
processFrame_NoRearm(w) ==
  [w EXCEPT !.surface = drawImage(@), !.blits = @ + 1]

\* Variant of processFrame that skips the draw when the canvas already holds a frame.
processFrame_DrawOnce(w) ==
  LET w1 == IF w.surface.pixels = "frame"
            THEN w
            ELSE [w EXCEPT !.surface = drawImage(@), !.blits = @ + 1]
      w2 == requestVideoFrameCallback(w1)
  IN  [w2 EXCEPT !.callback = Len(w2.cbs)]

processFrame(w) ==
  LET w1 == [w EXCEPT !.surface = drawImage(@), !.blits = @ + 1]
      w2 == requestVideoFrameCallback(w1)
  IN  [w2 EXCEPT !.callback = Len(w2.cbs)]

\* ---- the asynchronous processFrame of the readme (ImageBitmap variant) ----
\* Up to the await: the draw.
processFrameAsyncStart(w) ==
  [w EXCEPT !.surface = drawImage(@), !.blits = @ + 1]

\* Variant of the continuation that goes on without looking at this.destroyed.
processFrameAsyncResume_NoCheck(w, bitmap) ==
  IF bitmap = "rejected"
  THEN w
  ELSE LET w1 == [w EXCEPT !.surface = putImageData(@), !.writes = @ + 1]
           w2 == requestVideoFrameCallback(w1)
       IN  [w2 EXCEPT !.callback = Len(w2.cbs)]

\* After the await: the destroyed check, the write and the next request.
processFrameAsyncResume(w, bitmap) ==
  IF bitmap = "rejected"
  THEN w    \* the await throws: the rest of the function does not run
  ELSE IF w.destroyed
  THEN w
  ELSE LET w1 == [w EXCEPT !.surface = putImageData(@), !.writes = @ + 1]
           w2 == requestVideoFrameCallback(w1)
       IN  [w2 EXCEPT !.callback = Len(w2.cbs)]

Throw(w) == [w EXCEPT !.phase = "failed"]

\* Variant of the constructor that leaves the first sizing to the events.
constructor_NoResize(w, v, c) ==
  LET w1 == [w EXCEPT !.destroyed = FALSE, !.video = v, !.canvas = c]
      w2 == addEventListener(w1, "resize", BoundFn("resize", w1.binds + 1))
      w3 == addEventListener(w2, "loadedmetadata", BoundFn("resize", w1.binds + 2))
      w4 == [w3 EXCEPT !.binds = @ + 2]
      w6 == requestVideoFrameCallback(w4)
  IN  IF v = Null THEN Throw(w1)
      ELSE IF c = Null THEN Throw(w4)
      ELSE [w6 EXCEPT !.callback = Len(w6.cbs), !.phase = "constructed"]

constructor(w, v, c) ==
  LET w1 == [w EXCEPT !.destroyed = FALSE, !.video = v, !.canvas = c]
      w2 == addEventListener(w1, "resize", BoundFn("resize", w1.binds + 1))
      w3 == addEventListener(w2, "loadedmetadata", BoundFn("resize", w1.binds + 2))
      w4 == [w3 EXCEPT !.binds = @ + 2]
      w5 == resize(w4)
      w6 == requestVideoFrameCallback(w5)
  IN  IF v = Null THEN Throw(w1)         \* video.addEventListener on null
      ELSE IF c = Null THEN Throw(w4)    \* canvas.getContext on null
      ELSE [w6 EXCEPT !.callback = Len(w6.cbs), !.phase = "constructed"]

destroy(w) ==
  LET w1 == [w EXCEPT !.destroyed = TRUE]
      w2 == cancelVideoFrameCallback(w1, w1.callback)
      w3 == removeEventListener(w2, "resize", Method("resize"))
  IN  removeEventListener(w3, "loadedmetadata", Method("resize"))

\* ---- the platform: dispatching an event to the video's listeners ----
\* A bound resize runs with this = the renderer.  The unbound method would run
\* with this = the video element, whose .canvas is undefined: it throws.
Invoke(w, fn) == IF fn.method = "resize" /\ fn.bound > 0 THEN resize(w) ELSE w

RECURSIVE InvokeAll(_, _)
InvokeAll(w, fns) ==
  IF fns = {} THEN w
  ELSE LET f == CHOOSE x \in fns : TRUE
       IN  InvokeAll(Invoke(w, f), fns \ {f})

dispatchEvent(w, type) ==
  InvokeAll(w, {l[2] : l \in {x \in w.listeners : x[1] = type}})

----------------------------------------------------------------------------
Init ==
  /\ phase = "init"
  /\ destroyed = FALSE
  /\ video = Null
  /\ canvas = Null
  /\ callback = 0
  /\ binds = 0
  /\ listeners = {}
  /\ cbs = <<>>
  /\ surface = [width |-> DefaultWidth, height |-> DefaultHeight,
                filter |-> NoFilter, pixels |-> "blank"]
  /\ metadataLoaded \in BOOLEAN
  /\ IF metadataLoaded
     THEN videoWidth \in VideoDims /\ videoHeight \in VideoDims
     ELSE videoWidth = 0 /\ videoHeight = 0
  /\ eventQueue = {}
  /\ framesPresented = 0
  /\ blits = 0
  /\ delivered = 0
  /\ sized = <<0, 0>>
  /\ notified = FALSE
  /\ awaiting = {}
  /\ writes = 0
  /\ destroyedAtAwait = {}

\* window.processor = new PostProcessor(document.querySelector('video'),
\*                                      document.querySelector('canvas'))
\* querySelector gives null when the page has no such element.
Construct(v, c) ==
  /\ phase = "init"
  /\ Apply(constructor(World, v, c))
  /\ sized' = <<videoWidth, videoHeight>>
  /\ UNCHANGED <<envVars, delivered, notified, awaiting, destroyedAtAwait>>

\* The video element learns its dimensions and queues its events.
LoadMetadata(vw, vh) ==
  /\ ~metadataLoaded
  /\ metadataLoaded' = TRUE
  /\ videoWidth' = vw
  /\ videoHeight' = vh
  /\ eventQueue' = eventQueue \cup {"resize", "loadedmetadata"}
  /\ UNCHANGED <<phase, destroyed, video, canvas, callback, binds, listeners, cbs,
                 surface, framesPresented, blits, delivered, sized, notified,
                 awaiting, writes, destroyedAtAwait>>

\* A track or resolution change in the stream.
VideoResize(vw, vh) ==
  /\ metadataLoaded
  /\ <<vw, vh>> # <<videoWidth, videoHeight>>
  /\ videoWidth' = vw
  /\ videoHeight' = vh
  /\ eventQueue' = eventQueue \cup {"resize"}
  /\ UNCHANGED <<phase, destroyed, video, canvas, callback, binds, listeners, cbs,
                 surface, metadataLoaded, framesPresented, blits, delivered, sized,
                 notified, awaiting, writes, destroyedAtAwait>>

DispatchEvent(type) ==
  /\ type \in eventQueue
  /\ eventQueue' = eventQueue \ {type}
  /\ Apply(dispatchEvent(World, type))
  /\ sized' = <<videoWidth, videoHeight>>
  /\ notified' = (notified \/ phase = "constructed")
  /\ UNCHANGED <<videoWidth, videoHeight, metadataLoaded, framesPresented, delivered,
                 awaiting, destroyedAtAwait>>

\* The video presents a frame: the platform takes the pending callbacks off
\* its list to run them.
PresentFrame ==
  /\ phase = "constructed"
  /\ metadataLoaded
  /\ framesPresented < MaxFrames
  /\ framesPresented' = framesPresented + 1
  /\ cbs' = [h \in DOMAIN cbs |-> IF cbs[h] = "pending" THEN "inflight" ELSE cbs[h]]
  /\ UNCHANGED <<phase, destroyed, video, canvas, callback, binds, listeners, surface,
                 videoWidth, videoHeight, metadataLoaded, eventQueue, blits, delivered,
                 sized, notified, awaiting, writes, destroyedAtAwait>>

\* The platform invokes a callback it took off its list.
DeliverFrame(h) ==
  /\ h \in DOMAIN cbs
  /\ cbs[h] = "inflight"
  /\ Len(cbs) < MaxHandles
  /\ Apply(processFrame([World EXCEPT !.cbs[h] = "fired"]))
  /\ delivered' = IF destroyed THEN delivered ELSE delivered + 1
  /\ notified' = TRUE
  /\ UNCHANGED <<envVars, sized, awaiting, destroyedAtAwait>>

\* The function registered under a cancelled handle is invoked all the same.
DeliverStale(h) ==
  /\ h \in DOMAIN cbs
  /\ cbs[h] = "cancelled"
  /\ Len(cbs) < MaxHandles
  /\ Apply(processFrame([World EXCEPT !.cbs[h] = "fired"]))
  /\ notified' = TRUE
  /\ UNCHANGED <<envVars, delivered, sized, awaiting, destroyedAtAwait>>

\* window.processor.destroy()
Destroy ==
  /\ phase = "constructed"
  /\ Apply(destroy(World))
  /\ destroyedAtAwait' = destroyedAtAwait \cup {a.handle : a \in awaiting}
  /\ UNCHANGED <<envVars, delivered, sized, notified, awaiting>>

\* The platform invokes the asynchronous processFrame: it runs up to its
\* await and is suspended there.
DeliverFrameAsync(h) ==
  /\ h \in DOMAIN cbs
  /\ cbs[h] = "inflight"
  /\ Len(cbs) + Cardinality(awaiting) < MaxHandles
  /\ Apply(processFrameAsyncStart([World EXCEPT !.cbs[h] = "fired"]))
  /\ awaiting' = awaiting \cup {[handle |-> h, bitmap |-> createImageBitmap(surface)]}
  /\ delivered' = IF destroyed THEN delivered ELSE delivered + 1
  /\ notified' = TRUE
  /\ UNCHANGED <<envVars, sized, destroyedAtAwait>>

DeliverStaleAsync(h) ==
  /\ h \in DOMAIN cbs
  /\ cbs[h] = "cancelled"
  /\ Len(cbs) + Cardinality(awaiting) < MaxHandles
  /\ Apply(processFrameAsyncStart([World EXCEPT !.cbs[h] = "fired"]))
  /\ awaiting' = awaiting \cup {[handle |-> h, bitmap |-> createImageBitmap(surface)]}
  /\ notified' = TRUE
  /\ UNCHANGED <<envVars, delivered, sized, destroyedAtAwait>>

\* The bitmap promise settles and the suspended execution goes on.
ResumeFrame(a) ==
  /\ a \in awaiting
  /\ awaiting' = awaiting \ {a}
  /\ Apply(processFrameAsyncResume(World, a.bitmap))
  /\ UNCHANGED <<envVars, delivered, sized, notified, destroyedAtAwait>>

Next ==
  \/ \E v \in {"video", Null}, c \in {"canvas", Null} : Construct(v, c)
  \/ \E vw \in VideoDims, vh \in VideoDims : LoadMetadata(vw, vh)
  \/ \E vw \in VideoDims, vh \in VideoDims : VideoResize(vw, vh)
  \/ \E type \in EventTypes : DispatchEvent(type)
  \/ PresentFrame
  \/ \E h \in 1..MaxHandles : DeliverFrame(h)
  \/ \E h \in 1..MaxHandles : DeliverStale(h)
  \/ Destroy

Spec == Init /\ [][Next]_vars

\* The page never calls destroy(): the steps left are the construction, the
\* video's events and the frame callbacks.  A callback the platform took off
\* its list when a frame was presented is run by the event loop.
NextNoDestroy ==
  \/ \E v \in {"video", Null}, c \in {"canvas", Null} : Construct(v, c)
  \/ \E vw \in VideoDims, vh \in VideoDims : LoadMetadata(vw, vh)
  \/ \E vw \in VideoDims, vh \in VideoDims : VideoResize(vw, vh)
  \/ \E type \in EventTypes : DispatchEvent(type)
  \/ PresentFrame
  \/ \E h \in 1..MaxHandles : DeliverFrame(h)

\* The page with the asynchronous processFrame in place of the synchronous one.
NextAsync ==
  \/ \E v \in {"video", Null}, c \in {"canvas", Null} : Construct(v, c)
  \/ \E vw \in VideoDims, vh \in VideoDims : LoadMetadata(vw, vh)
  \/ \E vw \in VideoDims, vh \in VideoDims : VideoResize(vw, vh)
  \/ \E type \in EventTypes : DispatchEvent(type)
  \/ PresentFrame
  \/ \E h \in 1..MaxHandles : DeliverFrameAsync(h)
  \/ \E h \in 1..MaxHandles : DeliverStaleAsync(h)
  \/ \E a \in awaiting : ResumeFrame(a)
  \/ Destroy

AsyncSpec == Init /\ [][NextAsync]_vars

LiveSpec ==
  /\ Init
  /\ [][NextNoDestroy]_vars
  /\ WF_vars(\E h \in 1..MaxHandles : DeliverFrame(h))

----------------------------------------------------------------------------
\* The renderer's frame callbacks that have been requested and neither
\* invoked nor cancelled.
Outstanding == {h \in DOMAIN cbs : cbs[h] \in {"pending", "inflight"}}

Live == phase = "constructed" /\ ~destroyed

\* C1: once destroy() has returned, no step performs a blit (drawImage),
\* whatever frame notification is delivered afterwards.
C1_NoBlitAfterDestroy == [][destroyed => blits' = blits]_vars

\* C2: while the renderer is constructed and not destroyed, exactly one of
\* its frame callbacks is outstanding on the video.
C2_ExactlyOneSubscription == Live => Cardinality(Outstanding) = 1

C2_Witness ==
  /\ Live
  /\ delivered >= 2
  /\ surface.pixels = "blank"
  /\ Cardinality(Outstanding) = 1

\* C3: while the renderer is not destroyed, the canvas has the width and the
\* height the video had at construction or at the last dispatched resize or
\* loadedmetadata event.
C3_SurfaceMatchesSource ==
  Live => surface.width = sized[1] /\ surface.height = sized[2]

C3_Witness ==
  /\ Live
  /\ blits > 0
  /\ surface.pixels = "blank"
  /\ sized # <<videoWidth, videoHeight>>
  /\ sized[1] # sized[2]
  /\ surface.width = sized[1]
  /\ surface.height = sized[2]

\* C4: after destroy() the video holds no resize or loadedmetadata listener
\* registered by the renderer.
C4_ListenersRevoked == destroyed => listeners = {}

\* C5: after destroy(), dispatching a resize or loadedmetadata event leaves
\* the canvas width, height and filter as they were.
C5_SurfaceFrozenAfterDestroy ==
  [][(destroyed /\ \E type \in EventTypes : DispatchEvent(type))
       => /\ surface'.width = surface.width
          /\ surface'.height = surface.height
          /\ surface'.filter = surface.filter]_vars

\* C6: after destroy() has returned, the renderer never again has a frame
\* callback pending on the video.
C6_NoSubscriptionAfterDestroy ==
  destroyed => \A h \in DOMAIN cbs : cbs[h] # "pending"

\* C7: before destroy(), the number of blits equals the number of frame
\* notifications delivered to the renderer.
C7_BlitsEqualDelivered == Live => blits = delivered

C7_Witness ==
  /\ Live
  /\ delivered = MaxFrames
  /\ blits = MaxFrames
  /\ sized # <<videoWidth, videoHeight>>

\* C8: a second destroy() leaves the destroyed flag, the frame callbacks, the
\* listeners and the canvas as they were just before it.
C8_DestroyIdempotent ==
  [][(destroyed /\ Destroy) => UNCHANGED <<destroyed, cbs, listeners, surface>>]_vars

\* C9: the step in which the constructor returns leaves the canvas with the
\* video's current width and height, the filter set, and exactly one frame
\* callback pending.
C9_ConstructorPostcondition ==
  [][(phase = "init" /\ phase' = "constructed")
       => /\ surface'.width = videoWidth'
          /\ surface'.height = videoHeight'
          /\ surface'.filter = Filter
          /\ Cardinality({h \in DOMAIN cbs' : cbs'[h] = "pending"}) = 1
          /\ \A h \in DOMAIN cbs' : cbs'[h] = "pending"]_vars

\* The metadata was there before construction: no loadedmetadata is queued,
\* nothing has been delivered, and the canvas is sized all the same.
C9_Witness ==
  /\ Live
  /\ ~notified
  /\ metadataLoaded
  /\ eventQueue = {}
  /\ surface.width = videoWidth
  /\ surface.height = videoHeight
  /\ surface.width # DefaultWidth
  /\ surface.filter = Filter
  /\ cbs = <<"pending">>

\* C10: a construction that throws leaves no listener and no frame callback
\* of the renderer on the video.
C10_FailedConstructionLeavesNothing ==
  phase = "failed" => listeners = {} /\ cbs = <<>>

C12_FilterApplied == phase = "constructed" => surface.filter = Filter

\* A resize has cleared a canvas that held a frame, and a callback is about
\* to draw on it.
C12_Witness ==
  /\ phase = "constructed"
  /\ blits > 0
  /\ surface.pixels = "blank"
  /\ surface.filter = Filter
  /\ \E h \in DOMAIN cbs : cbs[h] = "inflight"

\* C15: every blit finds the canvas with the width, the height and the filter
\* that one completed resize gave it, and changes none of them.
C15_BlitSeesCompletedResize ==
  [][blits' # blits
       => /\ surface.width = sized[1]
          /\ surface.height = sized[2]
          /\ surface.filter = Filter
          /\ surface'.width = surface.width
          /\ surface'.height = surface.height
          /\ surface'.filter = surface.filter]_vars

C15_Witness ==
  /\ phase = "constructed"
  /\ blits >= 2
  /\ surface.pixels = "frame"
  /\ surface.width # surface.height
  /\ surface.width = videoWidth
  /\ surface.height = videoHeight
  /\ eventQueue = {}

\* C16: while the renderer is not destroyed, this.callback is the handle of
\* its one outstanding frame callback.
C16_CallbackIsOutstanding == Live => Outstanding = {callback}

C16_Witness ==
  /\ Live
  /\ delivered >= 2
  /\ callback = Len(cbs)
  /\ callback >= 3
  /\ cbs[callback] = "pending"

\* C17: a frame callback leaves the canvas width, height and filter, the
\* destroyed flag and the listeners unchanged; a dispatched resize or
\* loadedmetadata event leaves this.callback, the frame callbacks, the
\* destroyed flag and the listeners unchanged.
C17_FrameConditions ==
  [][/\ (\E h \in 1..MaxHandles : DeliverFrame(h) \/ DeliverStale(h))
          => /\ surface'.width = surface.width
             /\ surface'.height = surface.height
             /\ surface'.filter = surface.filter
             /\ UNCHANGED <<destroyed, listeners>>
     /\ (\E type \in EventTypes : DispatchEvent(type))
          => UNCHANGED <<callback, cbs, destroyed, listeners>>]_vars

\* A frame was drawn while a resize event was still queued: the canvas keeps
\* the size of the last dispatched event.
C17_Witness ==
  /\ Live
  /\ surface.pixels = "frame"
  /\ "resize" \in eventQueue
  /\ sized # <<videoWidth, videoHeight>>
  /\ surface.width = sized[1]
  /\ surface.height = sized[2]
  /\ Cardinality(listeners) = 2

\* C13: when destroy() is never called and the platform runs the callbacks
\* it took off its list, every firing of the renderer's frame callback is
\* followed by one more blit and by a new outstanding callback, so the next
\* presented frame fires again.  (A callback in flight has a handle of at
\* most MaxFrames and finds fewer than MaxFrames blits made.)
C13_FiringLeadsToBlit ==
  \A h \in 1..MaxFrames, n \in 0..MaxFrames - 1 :
    (h \in DOMAIN cbs /\ cbs[h] = "inflight" /\ blits = n)
      ~> (/\ blits > n
          /\ h \in DOMAIN cbs
          /\ cbs[h] = "fired"
          /\ Cardinality(Outstanding) = 1)

\* Every presented frame was drawn, with resizes in between, and the next
\* callback is pending.
C13_Witness ==
  /\ Live
  /\ framesPresented = MaxFrames
  /\ blits = MaxFrames
  /\ Len(cbs) = MaxFrames + 1
  /\ cbs[Len(cbs)] = "pending"
  /\ surface.pixels = "frame"
  /\ surface.width # sized[2]

\* C14: in the asynchronous processFrame, an execution that was suspended
\* at its await when destroy() was called writes nothing to the canvas and
\* requests no frame callback when it resumes.
C14_ResumeAfterDestroyIsNoOp ==
  [][\A a \in awaiting :
       (a.handle \in destroyedAtAwait /\ ResumeFrame(a))
         => /\ writes' = writes
            /\ surface' = surface
            /\ cbs' = cbs
            /\ callback' = callback]_vars

\* An execution with a bitmap in hand was suspended when destroy() was
\* called and has resumed since.
C14_Witness ==
  /\ destroyed
  /\ \E h \in destroyedAtAwait : \A a \in awaiting : a.handle # h
  /\ awaiting = {}
  /\ surface.width > 0
  /\ surface.height > 0
  /\ surface.pixels = "frame"
  /\ writes = 0
  /\ Outstanding = {}

====
